---- MODULE Spec2Model ----
(***************************************************************************)
(* MindSort: the deadline-reminder scheduler of App.tsx, the item store    *)
(* it polls, the classification gateway and the recommendation cache of    *)
(* services/gemini.ts.                                                     *)
(*                                                                         *)
(* Time is in milliseconds since local midnight of day 0, so that the      *)
(* local calendar day of an instant t (Date.toDateString) is t \div DayMs. *)
(* Daylight-saving shifts are not modelled.                                *)
(***************************************************************************)
EXTENDS Integers, Sequences, FiniteSets, TLC

VARIABLES
    items,          \* App.tsx useState<Item[]>: the item collection, newest first
    now,            \* the wall clock, Date.now()
    notifications,  \* App.tsx useState notifications: the transient messages on screen
    nextId,         \* number of ids handed out so far (crypto.randomUUID is fresh each time)
    userOps,        \* number of user operations performed so far
    lastOp,         \* the operation that produced the current state
    apiKey,         \* App.tsx useState apiKey: the credentials, "" when absent
    inputText,      \* SmartInput useState text: the content of the input field
    isProcessing,   \* SmartInput useState isProcessing
    pending,        \* the submitted texts whose classifyInput call awaits the remote answer
    isSettingsOpen, \* App.tsx useState isSettingsOpen
    lastClassify,   \* the last classifyInput call that completed: input, remote answer, outcome
    mounted,        \* whether the ReadingWidget has run its mount effect
    readingCache,   \* localStorage mindsort_reading_cache: {timestamp, data} or no entry
    readHistory,    \* App.tsx useState readHistory: the URLs marked as read
    suggestions,    \* ReadingWidget useState suggestions
    loading,        \* ReadingWidget useState loading
    calls,          \* the getReadingSuggestion calls whose remote request is outstanding
    lastSuggest,    \* the getReadingSuggestion call that settled in the last step of the widget, if any
    linkPreviewCache, \* gemini.ts linkPreviewCache: the previews memoized in this session, one per URL
    loadingCards,   \* the ids of the items whose mounted ItemCard has isLoadingPreview = true
    previewCalls,   \* the getLinkPreview calls whose remote request is outstanding
    lastPreview,    \* the getLinkPreview call that settled in the last step, if any
    settled         \* per URL, how the first getLinkPreview call that came back from the remote resolver settled

storeVars == <<items, now, notifications, nextId, userOps, lastOp>>
inputVars == <<apiKey, inputText, isProcessing, pending, isSettingsOpen, lastClassify>>
widgetVars == <<mounted, readingCache, readHistory, suggestions, loading, calls, lastSuggest>>
linkVars == <<linkPreviewCache, loadingCards, previewCalls, lastPreview, settled>>

\* ------------------------------------------------------------------ time

MsPerMinute == 1000 * 60
MsPerHour   == 1000 * 60 * 60
DayMs       == 24 * MsPerHour

\* The clock of the model moves in grains of a quarter of an hour; the
\* notification auto-expiry (6 s) and the poll interval (30 s) are shorter.
ClockGrain == 15 * MsPerMinute
NotificationTtl == 6000
PollInterval == 30000

\* The run starts at 23:30 of day 0 and lasts MaxClockSteps grains.
StartNow == DayMs - 2 * ClockGrain
MaxClockSteps == 7
MaxNow == StartNow + MaxClockSteps * ClockGrain

\* ------------------------------------------------------------------ items

Undefined == -1        \* an optional field that is not set

TODO == "TODO"
NOTE == "NOTE"
READ == "READ"
GOAL == "GOAL"
Category == {TODO, NOTE, READ, GOAL}

\* Item.linkPreview: undefined (not yet attempted), null (checked and failed)
\* or a LinkPreviewData, by its url and title
Absent == [kind |-> "absent", url |-> "", title |-> ""]
Null   == [kind |-> "null", url |-> "", title |-> ""]
LinkPreviewData(url, title) == [kind |-> "resolved", url |-> url, title |-> title]

StageVocabulary == {"24h", "today", "1h", "15m"}

\* Deadlines met in the runs: midnight between day 0 and day 1, 01:15 of
\* day 1, and 23:45 of day 1 (24 h 15 min after the start).
DeadlineMidnight == DayMs
DeadlineNight    == DayMs + 5 * ClockGrain
DeadlineFar      == StartNow + DayMs + ClockGrain
Deadlines == {DeadlineMidnight, DeadlineNight, DeadlineFar}

MaxItems == 2          \* ids handed out in a run
MaxUserOps == 2        \* user operations in a run

\* new Date(t).toDateString(): the local calendar day of t
toDateString(t) == t \div DayMs

\* JavaScript truthiness of an optional number: undefined and 0 are falsy
Truthy(n) == n # Undefined /\ n # 0

\* Array.prototype.includes
Includes(list, x) == \E j \in 1..Len(list) : list[j] = x

\* ------------------------------------------------------------------ strings

\* String.prototype.includes
includes(s, k) ==
    \E i \in 1..(Len(s) - Len(k) + 1) : SubSeq(s, i, i + Len(k) - 1) = k

\* String.prototype.startsWith
startsWith(s, k) == Len(s) >= Len(k) /\ SubSeq(s, 1, Len(k)) = k

\* String.prototype.trim, for the space character
RECURSIVE trim(_)
trim(s) ==
    IF s = "" THEN s
    ELSE IF SubSeq(s, 1, 1) = " " THEN trim(SubSeq(s, 2, Len(s)))
    ELSE IF SubSeq(s, Len(s), Len(s)) = " " THEN trim(SubSeq(s, 1, Len(s) - 1))
    ELSE s

UpperCase == "ABCDEFGHIJKLMNOPQRSTUVWXYZ"
LowerCase == "abcdefghijklmnopqrstuvwxyz"

lowerChar(c) ==
    IF \E i \in 1..Len(UpperCase) : SubSeq(UpperCase, i, i) = c
    THEN LET i == CHOOSE i \in 1..Len(UpperCase) : SubSeq(UpperCase, i, i) = c
         IN  SubSeq(LowerCase, i, i)
    ELSE c

\* String.prototype.toLowerCase
RECURSIVE toLowerCase(_)
toLowerCase(s) ==
    IF s = "" THEN s
    ELSE lowerChar(SubSeq(s, 1, 1)) \o toLowerCase(SubSeq(s, 2, Len(s)))

\* ------------------------------------------------------------------ reminder scheduler

\* Variants of the chain below, each with one slip of the kind the chain
\* invites; the properties further down are checked to tell them apart.

\* the imminent rule without its membership test
stageKeyFor_NoMembershipCheck(item, t) ==
    LET diff == item.deadline - t
        stages == item.notifiedStages
        sent(k) == \E j \in 1..Len(stages) : stages[j] = k
        isSameDay == toDateString(item.deadline) = toDateString(t)
    IN  IF diff > 0
        THEN IF diff <= 15 * MsPerMinute THEN "15m"
             ELSE IF diff > 15 * MsPerMinute /\ diff <= 1 * MsPerHour /\ ~sent("1h") THEN "1h"
             ELSE IF isSameDay /\ ~sent("today") /\ diff > 1 * MsPerHour THEN "today"
             ELSE IF ~isSameDay /\ diff <= 24 * MsPerHour /\ ~sent("24h") THEN "24h"
             ELSE ""
        ELSE ""

\* the chain without the diff > 0 guard
stageKeyFor_NoPastGuard(item, t) ==
    LET diff == item.deadline - t
        stages == item.notifiedStages
        sent(k) == \E j \in 1..Len(stages) : stages[j] = k
        isSameDay == toDateString(item.deadline) = toDateString(t)
    IN  IF diff <= 15 * MsPerMinute /\ ~sent("15m") THEN "15m"
        ELSE IF diff > 15 * MsPerMinute /\ diff <= 1 * MsPerHour /\ ~sent("1h") THEN "1h"
        ELSE IF isSameDay /\ ~sent("today") /\ diff > 1 * MsPerHour THEN "today"
        ELSE IF ~isSameDay /\ diff <= 24 * MsPerHour /\ ~sent("24h") THEN "24h"
        ELSE ""

\* the hour rule with hoursLeft < 1 for hoursLeft <= 1
stageKeyFor_StrictHour(item, t) ==
    LET diff == item.deadline - t
        stages == item.notifiedStages
        sent(k) == \E j \in 1..Len(stages) : stages[j] = k
        isSameDay == toDateString(item.deadline) = toDateString(t)
    IN  IF diff > 0
        THEN IF diff <= 15 * MsPerMinute /\ ~sent("15m") THEN "15m"
             ELSE IF diff > 15 * MsPerMinute /\ diff < 1 * MsPerHour /\ ~sent("1h") THEN "1h"
             ELSE IF isSameDay /\ ~sent("today") /\ diff > 1 * MsPerHour THEN "today"
             ELSE IF ~isSameDay /\ diff <= 24 * MsPerHour /\ ~sent("24h") THEN "24h"
             ELSE ""
        ELSE ""

\* the far rule without hoursLeft <= 24
stageKeyFor_NoFarBound(item, t) ==
    LET diff == item.deadline - t
        stages == item.notifiedStages
        sent(k) == \E j \in 1..Len(stages) : stages[j] = k
        isSameDay == toDateString(item.deadline) = toDateString(t)
    IN  IF diff > 0
        THEN IF diff <= 15 * MsPerMinute /\ ~sent("15m") THEN "15m"
             ELSE IF diff > 15 * MsPerMinute /\ diff <= 1 * MsPerHour /\ ~sent("1h") THEN "1h"
             ELSE IF isSameDay /\ ~sent("today") /\ diff > 1 * MsPerHour THEN "today"
             ELSE IF ~isSameDay /\ ~sent("24h") THEN "24h"
             ELSE ""
        ELSE ""

\* stageKeyFor with the hour rule tested before the 15 min rule
stageKeyFor_HourFirst(item, t) ==
    LET diff == item.deadline - t
        stages == item.notifiedStages
        sent(k) == \E j \in 1..Len(stages) : stages[j] = k
    IN  IF diff > 0
        THEN IF diff <= 1 * MsPerHour /\ ~sent("1h") THEN "1h"
             ELSE IF diff <= 15 * MsPerMinute /\ ~sent("15m") THEN "15m"
             ELSE ""
        ELSE ""

\* The if / else-if chain of checkReminders: the stage key chosen for one
\* item at instant t, "" when shouldNotify stays false.
stageKeyFor(item, t) ==
    LET diff == item.deadline - t
        stages == item.notifiedStages
        sent(k) == \E j \in 1..Len(stages) : stages[j] = k
        isSameDay == toDateString(item.deadline) = toDateString(t)
        \* hoursLeft = diff / MsPerHour and minutesLeft = diff / MsPerMinute are
        \* compared as exact quotients: x / u <= n  iff  x <= n * u
    IN  IF diff > 0
        THEN IF diff <= 15 * MsPerMinute /\ ~sent("15m") THEN "15m"
             ELSE IF diff > 15 * MsPerMinute /\ diff <= 1 * MsPerHour /\ ~sent("1h") THEN "1h"
             ELSE IF isSameDay /\ ~sent("today") /\ diff > 1 * MsPerHour THEN "today"
             ELSE IF ~isSameDay /\ diff <= 24 * MsPerHour /\ ~sent("24h") THEN "24h"
             ELSE ""
        ELSE ""

\* newStages marking the earlier stages as fired together with the one chosen
newStages_Retroactive(item, t) ==
    LET k == stageKeyFor(item, t)
        stages == item.notifiedStages
        sent(x) == \E j \in 1..Len(stages) : stages[j] = x
        earlier == IF k = "15m" THEN <<"1h">> ELSE <<>>
    IN  IF k = "" THEN <<>>
        ELSE SelectSeq(earlier, LAMBDA x : ~sent(x)) \o <<k>>

\* the tags one tick appends to an item: [...stages, stageKey] when
\* shouldNotify is set, nothing otherwise
newStages(item, t) ==
    IF stageKeyFor(item, t) # "" THEN <<stageKeyFor(item, t)>> ELSE <<>>

\* the message of a stage, `<icon> Due ...: ${item.text}` (the icon is left out)
message(stage, text) ==
    CASE stage = "15m"   -> "Due in 15 mins: " \o text
      [] stage = "1h"    -> "Due in 1 hour: " \o text
      [] stage = "today" -> "Due today: " \o text
      [] stage = "24h"   -> "Due tomorrow: " \o text

\* checkItem without the early return for completed items
checkItem_IgnoresCompleted(item, t) ==
    IF ~Truthy(item.deadline)
    THEN [item |-> item, queued |-> <<>>]
    ELSE LET fired == IF stageKeyFor(item, t) # "" THEN <<stageKeyFor(item, t)>> ELSE <<>>
         IN  [item |-> [item EXCEPT !.notifiedStages = item.notifiedStages \o fired],
              queued |-> [j \in 1..Len(fired) |-> message(fired[j], item.text)]]

\* checkItem when the callback's timer is set twice for a stage
checkItem_QueuesTwice(item, t) ==
    IF item.completed \/ ~Truthy(item.deadline)
    THEN [item |-> item, queued |-> <<>>]
    ELSE LET fired == newStages(item, t)
         IN  [item |-> [item EXCEPT !.notifiedStages = item.notifiedStages \o fired],
              queued |-> [j \in 1..(2 * Len(fired)) |-> message(fired[1], item.text)]]

\* checkItem when the item that has got its last stage loses its deadline
checkItem_DropsDeadline(item, t) ==
    IF item.completed \/ ~Truthy(item.deadline)
    THEN [item |-> item, queued |-> <<>>]
    ELSE LET fired == newStages(item, t)
         IN  [item |-> [item EXCEPT !.notifiedStages = item.notifiedStages \o fired,
                                    !.deadline = IF fired = <<"15m">> THEN Undefined ELSE item.deadline],
              queued |-> [j \in 1..Len(fired) |-> message(fired[j], item.text)]]

\* The callback of currentItems.map in checkReminders: the item it returns
\* and the messages it hands to setTimeout(() => addNotification(message), 0)
checkItem(item, t) ==
    IF item.completed \/ ~Truthy(item.deadline)
    THEN [item |-> item, queued |-> <<>>]
    ELSE LET fired == newStages(item, t)
         IN  [item |-> [item EXCEPT !.notifiedStages = item.notifiedStages \o fired],
              queued |-> [j \in 1..Len(fired) |-> message(fired[j], item.text)]]

RECURSIVE Flatten(_)
Flatten(seqs) == IF seqs = <<>> THEN <<>> ELSE Head(seqs) \o Flatten(Tail(seqs))

\* checkReminders at instant t over the collection its: the new collection
\* and the messages queued, in collection order
checkReminders(its, t) ==
    [items  |-> [i \in 1..Len(its) |-> checkItem(its[i], t).item],
     queued |-> Flatten([i \in 1..Len(its) |-> checkItem(its[i], t).queued])]

\* addNotification for each queued message: setNotifications(prev => [...prev, msg])
addNotifications(prev, msgs) == prev \o msgs

\* One poll tick: setInterval(checkReminders, 30000) or the immediate check
\* on mount. The zero-delay timers that call addNotification run before
\* anything else can, so their effect is part of the tick.
Tick ==
    /\ items' = checkReminders(items, now).items
    /\ notifications' = addNotifications(notifications, checkReminders(items, now).queued)
    /\ lastOp' = "Tick"
    /\ UNCHANGED <<now, nextId, userOps>>
    /\ UNCHANGED inputVars
    /\ UNCHANGED widgetVars
    /\ UNCHANGED linkVars

\* Time passes. Every step of the clock is longer than the 6 s after which a
\* notification removes itself, so the notifications on screen are gone.
AdvanceTime ==
    /\ now + ClockGrain <= MaxNow
    /\ now' = now + ClockGrain
    /\ notifications' = IF ClockGrain >= NotificationTtl THEN <<>> ELSE notifications
    /\ lastOp' = "AdvanceTime"
    /\ UNCHANGED <<items, nextId, userOps>>
    /\ UNCHANGED inputVars
    /\ UNCHANGED widgetVars
    /\ UNCHANGED linkVars

\* ------------------------------------------------------------------ item store

\* The item handleSubmit builds from a classification result
newItem(id, text, category, deadline, t) ==
    [id |-> id, text |-> text, category |-> category, createdAt |-> t,
     completed |-> FALSE, deadline |-> deadline, notifiedStages |-> <<>>,
     linkPreview |-> Absent]

\* The classification results that reach the store in the runs
SampleResults ==
    { [text |-> "call", category |-> TODO, deadline |-> DeadlineMidnight],
      [text |-> "call", category |-> TODO, deadline |-> DeadlineNight],
      [text |-> "trip", category |-> GOAL, deadline |-> DeadlineFar],
      [text |-> "book", category |-> READ, deadline |-> Undefined] }

handleAddItem(its, item) == <<item>> \o its

\* an update that adds the item when the store does not hold it
handleUpdateItem_Upsert(its, id, preview) ==
    IF \E i \in 1..Len(its) : its[i].id = id
    THEN [i \in 1..Len(its) |->
             IF its[i].id = id THEN [its[i] EXCEPT !.linkPreview = preview] ELSE its[i]]
    ELSE <<[newItem(id, "", TODO, Undefined, 0) EXCEPT !.linkPreview = preview]>> \o its

\* an update that rebuilds the item from the fields of a stale copy, which
\* has no stage tags yet
handleUpdateItem_StaleCopy(its, id, preview) ==
    [i \in 1..Len(its) |->
        IF its[i].id = id
        THEN [its[i] EXCEPT !.linkPreview = preview, !.notifiedStages = <<>>]
        ELSE its[i]]

handleUpdateItem(its, id, preview) ==
    [i \in 1..Len(its) |->
        IF its[i].id = id THEN [its[i] EXCEPT !.linkPreview = preview] ELSE its[i]]

handleToggleItem(its, id) ==
    [i \in 1..Len(its) |->
        IF its[i].id = id THEN [its[i] EXCEPT !.completed = ~its[i].completed] ELSE its[i]]

handleDeleteItem(its, id) == SelectSeq(its, LAMBDA it : it.id # id)

handleMoveItem(its, id, newCategory) ==
    [i \in 1..Len(its) |->
        IF its[i].id = id THEN [its[i] EXCEPT !.category = newCategory] ELSE its[i]]

ItemIds == {items[i].id : i \in 1..Len(items)}

UserOp == userOps < MaxUserOps /\ userOps' = userOps + 1

\* ------------------------------------------------------------------ dates

NaN == -2              \* the time value of an invalid Date

Digits == "0123456789"
isDigit(c) == \E n \in 0..9 : SubSeq(Digits, n + 1, n + 1) = c
digitValue(c) == CHOOSE n \in 0..9 : SubSeq(Digits, n + 1, n + 1) = c
twoDigits(n) == SubSeq(Digits, (n \div 10) + 1, (n \div 10) + 1) \o SubSeq(Digits, (n % 10) + 1, (n % 10) + 1)
isNumber2(s, i) == isDigit(SubSeq(s, i, i)) /\ isDigit(SubSeq(s, i + 1, i + 1))
number2(s, i) == 10 * digitValue(SubSeq(s, i, i)) + digitValue(SubSeq(s, i + 1, i + 1))

\* Date.prototype.toISOString for the instants of January 1970, where the
\* model's clock runs (local time is UTC): 1970-01-DDTHH:MM:SS.000Z
toISOString(t) ==
    "1970-01-" \o twoDigits((t \div DayMs) + 1)
        \o "T" \o twoDigits((t % DayMs) \div MsPerHour)
        \o ":" \o twoDigits((t % MsPerHour) \div MsPerMinute)
        \o ":" \o twoDigits((t % MsPerMinute) \div 1000)
        \o ".000Z"

\* new Date(s).getTime() for a date-time string of January 1970, with or
\* without the .000Z suffix; NaN for a string that is no date
dateGetTime(s) ==
    IF /\ Len(s) \in {19, 24}
       /\ startsWith(s, "1970-01-")
       /\ isNumber2(s, 9) /\ SubSeq(s, 11, 11) = "T"
       /\ isNumber2(s, 12) /\ SubSeq(s, 14, 14) = ":"
       /\ isNumber2(s, 15) /\ SubSeq(s, 17, 17) = ":"
       /\ isNumber2(s, 18)
       /\ (Len(s) = 24 => SubSeq(s, 20, 24) = ".000Z")
       /\ number2(s, 9) \in 1..31 /\ number2(s, 12) < 24
       /\ number2(s, 15) < 60 /\ number2(s, 18) < 60
    THEN (number2(s, 9) - 1) * DayMs + number2(s, 12) * MsPerHour
            + number2(s, 15) * MsPerMinute + number2(s, 18) * 1000
    ELSE NaN

\* ------------------------------------------------------------------ classification gateway

\* a ClassificationResult (the emoji, which no item keeps, is left out);
\* deadline is "" when the result has none
ClassificationResult(category, refinedText, deadline) ==
    [category |-> category, refinedText |-> refinedText, deadline |-> deadline]

\* handleError: the error it throws. It throws on every path, so it never
\* returns to its caller.
handleError(msg) ==
    IF includes(msg, "400") \/ includes(msg, "API key not valid") \/ includes(msg, "API_KEY_INVALID")
    THEN [throws |-> TRUE, error |-> "AUTH_ERROR"]
    ELSE IF includes(msg, "429") \/ includes(msg, "Quota exceeded") \/ includes(msg, "RESOURCE_EXHAUSTED")
    THEN [throws |-> TRUE, error |-> "QUOTA_ERROR"]
    ELSE [throws |-> TRUE, error |-> msg]

\* the date phrases tested in the other order
localClassify_TonightFirst(input, t) ==
    LET lower == toLowerCase(input)
        today == t - (t % DayMs)
        deadline ==
            IF includes(lower, "tonight") THEN toISOString(today + 20 * MsPerHour)
            ELSE IF includes(lower, "tomorrow") THEN toISOString(today + DayMs + 9 * MsPerHour)
            ELSE ""
    IN  ClassificationResult(TODO, input, deadline)

\* localClassify at instant t: the keyword rules and the two date phrases
localClassify(input, t) ==
    LET lower == toLowerCase(input)
        category ==
            IF includes(lower, "read ") \/ includes(lower, "book") \/ includes(lower, "article")
                  \/ startsWith(input, "http")
            THEN READ
            ELSE IF includes(lower, "goal") \/ includes(lower, "achieve") \/ includes(lower, "learn to")
            THEN GOAL
            ELSE IF startsWith(lower, "note") \/ includes(lower, "idea:") \/ includes(lower, "remember")
            THEN NOTE
            ELSE TODO
        today == t - (t % DayMs)
        deadline ==
            IF includes(lower, "tomorrow") THEN toISOString(today + DayMs + 9 * MsPerHour)
            ELSE IF includes(lower, "tonight") THEN toISOString(today + 20 * MsPerHour)
            ELSE ""
    IN  ClassificationResult(category, input, deadline)

Resolved_(value) == [kind |-> "resolved", value |-> value, error |-> ""]
Rejected_(error) ==
    [kind |-> "rejected", value |-> ClassificationResult(TODO, "", ""), error |-> error]

\* What ai.models.generateContent can answer: a rejection with a message, or
\* a response whose text is empty, is no JSON, or is the JSON of a result.
Reject(msg) ==
    [kind |-> "reject", message |-> msg, text |-> "", json |-> ClassificationResult(TODO, "", "")]
Response(text, json) ==
    [kind |-> "response", message |-> "", text |-> text, json |-> json]

ErrorMessages ==
    { "got status: 400 Bad Request. API key not valid.",
      "got status: 429 RESOURCE_EXHAUSTED",
      "Failed to fetch" }

RemoteResults ==
    { ClassificationResult(TODO, "call", "1970-01-02T00:00:00"),
      ClassificationResult(TODO, "call", "next friday"),
      ClassificationResult(READ, "book", "") }

ClassifyAnswers ==
    {Reject(m) : m \in ErrorMessages}
        \cup {Response("", ClassificationResult(TODO, "", ""))}
        \cup {Response("<html>", ClassificationResult(TODO, "", ""))}
        \cup {Response("json", r) : r \in RemoteResults}

RemoteFailed(answer) == answer.kind = "reject" \/ answer.text # "json"

\* the catch block of classifyInput: handleError(error), then
\* return localClassify(input) if handleError returns
classifyCatch(input, msg, t) ==
    IF handleError(msg).throws
    THEN Rejected_(handleError(msg).error)
    ELSE Resolved_(localClassify(input, t))

\* classifyInput with credentials, once the remote call has answered: how
\* the promise settles
classifyRemote(input, answer, t) ==
    IF answer.kind = "reject" THEN classifyCatch(input, answer.message, t)
    ELSE IF answer.text = "" THEN classifyCatch(input, "No response from Gemini", t)
    ELSE IF answer.text # "json" THEN classifyCatch(input, "Unexpected token < in JSON", t)
    ELSE Resolved_(answer.json)

\* classifyInput without the test of the credentials
classifyLocal_AlwaysRemote(input, key, t) ==
    [settles |-> FALSE, outcome |-> Rejected_("")]

\* classifyInput up to its remote call: without credentials it returns
\* localClassify(input), with them it goes on to the remote classifier
classifyLocal(input, key, t) ==
    IF key = ""
    THEN [settles |-> TRUE, outcome |-> Resolved_(localClassify(input, t))]
    ELSE [settles |-> FALSE, outcome |-> Rejected_("")]

\* the deadline stored without the isNaN test
deadlineTimestamp_KeepsInvalid(result) ==
    IF result.deadline # "" THEN dateGetTime(result.deadline) ELSE Undefined

\* the deadline handleSubmit stores for a result
deadlineTimestamp(result) ==
    IF result.deadline # "" /\ dateGetTime(result.deadline) # NaN
    THEN dateGetTime(result.deadline)
    ELSE Undefined

\* ------------------------------------------------------------------ the link resolver

MaxPreviewCalls == 2   \* getLinkPreview calls outstanding at once

\* the positions of the text where /(https?:\/\/[^\s]+)/g matches: a scheme
\* followed by at least one character that is no white space
urlStarts(text) ==
    {i \in 1..Len(text) :
        \E scheme \in {"http://", "https://"} :
            /\ i + Len(scheme) <= Len(text)
            /\ SubSeq(text, i, i + Len(scheme) - 1) = scheme
            /\ SubSeq(text, i + Len(scheme), i + Len(scheme)) # " "}

\* ItemCard's firstUrl: text.match(urlRegex)[0], the first match up to the
\* next white space; "" stands for null
firstUrl(text) ==
    IF urlStarts(text) = {} THEN ""
    ELSE LET i == CHOOSE a \in urlStarts(text) : \A b \in urlStarts(text) : a <= b
             ends == {j \in i..Len(text) : \A k \in i..j : SubSeq(text, k, k) # " "}
             e == CHOOSE a \in ends : \A b \in ends : b <= a
         IN  SubSeq(text, i, e)

\* how a getLinkPreview promise settles: with a LinkPreviewData or null, or
\* with an error
PreviewReturned(value) == [kind |-> "resolved", value |-> value, error |-> ""]
PreviewThrown(error) == [kind |-> "rejected", value |-> Null, error |-> error]

\* What ai.models.generateContent can answer to the metadata prompt: a
\* rejection with a message, or a response whose text is empty, is no JSON,
\* or is the JSON of an object with or without a title.
PreviewReject(msg) == [kind |-> "reject", message |-> msg, text |-> "", title |-> ""]
PreviewResponse(text, title) == [kind |-> "response", message |-> "", text |-> text, title |-> title]

PreviewAnswers ==
    {PreviewReject(m) : m \in ErrorMessages}
        \cup {PreviewResponse("", ""), PreviewResponse("<html>", "")}
        \cup {PreviewResponse("json", "Example Domain"), PreviewResponse("json", "")}

\* linkPreviewCache[url], as the set of the previews stored under url
cachedPreview(cache, url) == {p \in cache : p.url = url}

\* linkPreviewCache[url] = preview
storePreview(cache, preview) == (cache \ cachedPreview(cache, preview.url)) \cup {preview}

\* getLinkPreview up to its remote call: it returns the memoized preview, or
\* null without credentials, or goes on to the remote resolver
previewLocal(cache, url, key) ==
    IF cachedPreview(cache, url) # {}
    THEN [settles |-> TRUE, outcome |-> PreviewReturned(CHOOSE p \in cachedPreview(cache, url) : TRUE)]
    ELSE IF key = ""
    THEN [settles |-> TRUE, outcome |-> PreviewReturned(Null)]
    ELSE [settles |-> FALSE, outcome |-> PreviewReturned(Null)]

\* the catch block of getLinkPreview: handleError(e), then the fallback
\* preview, titled by the url, if handleError returns
previewCatch(url, msg) ==
    IF handleError(msg).throws
    THEN PreviewThrown(handleError(msg).error)
    ELSE PreviewReturned(LinkPreviewData(url, url))

\* getLinkPreview once the remote resolver has answered: how the promise
\* settles
previewRemote(url, answer) ==
    IF answer.kind = "reject" THEN previewCatch(url, answer.message)
    ELSE IF answer.text = "" THEN PreviewReturned(Null)
    ELSE IF answer.text # "json" THEN previewCatch(url, "Unexpected token < in JSON")
    ELSE PreviewReturned(LinkPreviewData(url, IF answer.title = "" THEN "No Title" ELSE answer.title))

\* whether the answer ends in the catch block
previewCaught(answer) ==
    answer.kind = "reject" \/ (answer.text # "" /\ answer.text # "json")

\* linkPreviewCache after the remote resolver has answered: the parsed
\* preview is stored, and so is the fallback if the catch block gets to it
previewCacheAfter(cache, url, answer) ==
    IF answer.kind = "response" /\ answer.text = "json"
    THEN storePreview(cache, previewRemote(url, answer).value)
    ELSE IF previewCaught(answer) /\ previewRemote(url, answer).kind = "resolved"
    THEN storePreview(cache, previewRemote(url, answer).value)
    ELSE cache

\* ------------------------------------------------------------------ the item cards

\* an outstanding getLinkPreview call: the item whose card started it, the
\* url, and whether the card instance that started it is still mounted
PreviewCall(id, url) == [id |-> id, url |-> url, live |-> TRUE]

NoPreview ==
    [called |-> FALSE, id |-> 0, url |-> "", remote |-> FALSE, outcome |-> PreviewThrown("")]

itemOf(its, id) == its[CHOOSE i \in 1..Len(its) : its[i].id = id]

\* the condition of the effect without the test of the stored credentials
wantsPreview_IgnoresKey(item, isLoadingPreview, storedKey) ==
    /\ firstUrl(item.text) # ""
    /\ item.linkPreview = Absent
    /\ ~isLoadingPreview
    /\ ~item.completed

\* the condition of ItemCard's effect; isCompleted is the prop the column
\* passes to the cards of its completed items
wantsPreview(item, isLoadingPreview, storedKey) ==
    /\ firstUrl(item.text) # ""
    /\ item.linkPreview = Absent
    /\ ~isLoadingPreview
    /\ ~item.completed
    /\ storedKey # ""

\* the outstanding calls once the card of item id is unmounted
unmounted(id) ==
    [k \in 1..Len(previewCalls) |->
        IF previewCalls[k].id = id THEN [previewCalls[k] EXCEPT !.live = FALSE] ELSE previewCalls[k]]

\* A new ItemCard instance for item id of the list its is mounted (the item
\* is new, or has changed its column or its section of the column): the
\* instance it replaces, if any, is unmounted, isLoadingPreview starts as
\* false and the effect runs. A call that getLinkPreview settles without the
\* remote resolver updates the item at once; another stays outstanding.
mountCard(its, id) ==
    LET item == itemOf(its, id)
        url == firstUrl(item.text)
        start == previewLocal(linkPreviewCache, url, apiKey)
    IN  IF ~wantsPreview(item, FALSE, apiKey)
        THEN /\ items' = its
             /\ loadingCards' = loadingCards \ {id}
             /\ previewCalls' = unmounted(id)
             /\ lastPreview' = NoPreview
        ELSE IF start.settles
        THEN /\ items' = handleUpdateItem(its, id, start.outcome.value)
             /\ loadingCards' = loadingCards \ {id}
             /\ previewCalls' = unmounted(id)
             /\ lastPreview' = [called |-> TRUE, id |-> id, url |-> url, remote |-> FALSE,
                                outcome |-> start.outcome]
        ELSE /\ Len(previewCalls) < MaxPreviewCalls
             /\ items' = its
             /\ loadingCards' = loadingCards \cup {id}
             /\ previewCalls' = Append(unmounted(id), PreviewCall(id, url))
             /\ lastPreview' = NoPreview

\* the card of item id is unmounted for good
unmountCard(id) ==
    /\ loadingCards' = loadingCards \ {id}
    /\ previewCalls' = unmounted(id)
    /\ lastPreview' = NoPreview

AddItem ==
    /\ UserOp
    /\ lastOp' = "AddItem"
    /\ nextId < MaxItems
    /\ \E r \in SampleResults :
          mountCard(handleAddItem(items, newItem(nextId + 1, r.text, r.category, r.deadline, now)),
                    nextId + 1)
    /\ nextId' = nextId + 1
    /\ UNCHANGED <<now, notifications, linkPreviewCache, settled>>
    /\ UNCHANGED inputVars
    /\ UNCHANGED widgetVars

\* the card moves between the active and the completed section of its column
ToggleItem ==
    /\ UserOp
    /\ lastOp' = "ToggleItem"
    /\ \E id \in ItemIds : mountCard(handleToggleItem(items, id), id)
    /\ UNCHANGED <<now, notifications, nextId, linkPreviewCache, settled>>
    /\ UNCHANGED inputVars
    /\ UNCHANGED widgetVars

DeleteItem ==
    /\ UserOp
    /\ lastOp' = "DeleteItem"
    /\ \E id \in ItemIds :
          /\ items' = handleDeleteItem(items, id)
          /\ unmountCard(id)
    /\ UNCHANGED <<now, notifications, nextId, linkPreviewCache, settled>>
    /\ UNCHANGED inputVars
    /\ UNCHANGED widgetVars

\* a drop on a column; the card is mounted anew when the column is another one
MoveItem ==
    /\ UserOp
    /\ lastOp' = "MoveItem"
    /\ \E id \in ItemIds, c \in Category :
          IF itemOf(items, id).category # c
          THEN mountCard(handleMoveItem(items, id, c), id)
          ELSE /\ items' = handleMoveItem(items, id, c)
               /\ lastPreview' = NoPreview
               /\ UNCHANGED <<loadingCards, previewCalls>>
    /\ UNCHANGED <<now, notifications, nextId, linkPreviewCache, settled>>
    /\ UNCHANGED inputVars
    /\ UNCHANGED widgetVars

\* The remote resolver answers an outstanding getLinkPreview call, which runs
\* to its end, and the promise chain of the card that started it runs:
\* onUpdate(item.id, {linkPreview: data}) when the promise is fulfilled,
\* onUpdate(item.id, {linkPreview: null}) when it is rejected, and
\* setIsLoadingPreview(false) on the instance that started the call.
UpdateItem ==
    /\ \E k \in 1..Len(previewCalls), answer \in PreviewAnswers :
          LET call == previewCalls[k]
              outcome == previewRemote(call.url, answer)
          IN  /\ items' = handleUpdateItem(items, call.id,
                                           IF outcome.kind = "resolved" THEN outcome.value ELSE Null)
              /\ linkPreviewCache' = previewCacheAfter(linkPreviewCache, call.url, answer)
              /\ loadingCards' = IF call.live THEN loadingCards \ {call.id} ELSE loadingCards
              /\ previewCalls' = SubSeq(previewCalls, 1, k - 1)
                                     \o SubSeq(previewCalls, k + 1, Len(previewCalls))
              /\ lastPreview' = [called |-> TRUE, id |-> call.id, url |-> call.url, remote |-> TRUE,
                                 outcome |-> outcome]
              /\ settled' = IF \E s \in settled : s.url = call.url
                            THEN settled
                            ELSE settled \cup {[url |-> call.url, outcome |-> outcome]}
    /\ lastOp' = "UpdateItem"
    /\ UNCHANGED <<now, notifications, nextId, userOps>>
    /\ UNCHANGED inputVars
    /\ UNCHANGED widgetVars

\* ------------------------------------------------------------------ the add-item flow

NoCall ==
    [called |-> FALSE, input |-> "", answer |-> Reject(""), outcome |-> Rejected_(""),
     added |-> FALSE]

InputTexts == {"", "  ", "call mom tomorrow", "Read a book"}

\* typing into the input field: setText(e.target.value)
TypeText ==
    /\ \E t \in InputTexts : inputText' = t
    /\ inputText' # inputText
    /\ lastOp' = "TypeText"
    /\ UNCHANGED <<items, now, notifications, nextId, userOps>>
    /\ UNCHANGED <<apiKey, isProcessing, pending, isSettingsOpen, lastClassify>>
    /\ UNCHANGED widgetVars
    /\ UNCHANGED linkVars

CloseSettings ==
    /\ isSettingsOpen
    /\ isSettingsOpen' = FALSE
    /\ lastOp' = "CloseSettings"
    /\ UNCHANGED <<items, now, notifications, nextId, userOps>>
    /\ UNCHANGED <<apiKey, inputText, isProcessing, pending, lastClassify>>
    /\ UNCHANGED widgetVars
    /\ UNCHANGED linkVars

\* a notification removes itself 6 s after it was added: the oldest goes first
ExpireNotification ==
    /\ notifications # <<>>
    /\ notifications' = Tail(notifications)
    /\ lastOp' = "ExpireNotification"
    /\ UNCHANGED <<items, now, nextId, userOps>>
    /\ UNCHANGED inputVars
    /\ UNCHANGED widgetVars
    /\ UNCHANGED linkVars

\* handleSubmit without the test of the credentials
Submit_WithoutKeyTest ==
    /\ trim(inputText) # "" /\ ~isProcessing
    /\ UserOp
    /\ lastOp' = "Submit"
    /\ IF FALSE
       THEN /\ notifications' = addNotifications(notifications, <<"Please setup your Gemini API Key first.">>)
            /\ isSettingsOpen' = TRUE
            /\ UNCHANGED <<isProcessing, pending>>
       ELSE /\ isProcessing' = TRUE
            /\ pending' = Append(pending, inputText)
            /\ UNCHANGED <<notifications, isSettingsOpen>>
    /\ UNCHANGED <<items, now, nextId, apiKey, inputText, lastClassify>>
    /\ UNCHANGED widgetVars
    /\ UNCHANGED linkVars

\* handleSubmit up to its await. Without credentials it asks for the key
\* (handleRequestApiKey) and returns; with them it starts classifyInput, whose
\* remote call is then outstanding.
Submit ==
    /\ trim(inputText) # "" /\ ~isProcessing
    /\ UserOp
    /\ lastOp' = "Submit"
    /\ IF apiKey = ""
       THEN /\ notifications' = addNotifications(notifications, <<"Please setup your Gemini API Key first.">>)
            /\ isSettingsOpen' = TRUE
            /\ UNCHANGED <<isProcessing, pending>>
       ELSE /\ isProcessing' = TRUE
            /\ pending' = Append(pending, inputText)
            /\ UNCHANGED <<notifications, isSettingsOpen>>
    /\ UNCHANGED <<items, now, nextId, apiKey, inputText, lastClassify>>
    /\ UNCHANGED widgetVars
    /\ UNCHANGED linkVars

\* handleApiError
handleApiError(prev, errorType) ==
    IF errorType = "AUTH_ERROR" THEN addNotifications(prev, <<"API Key Invalid. Please check settings.">>)
    ELSE IF errorType = "QUOTA_ERROR" THEN addNotifications(prev, <<"API Quota Exceeded.">>)
    ELSE prev

\* handleSubmit's continuation with setIsProcessing(false) at the end of the
\* try block instead of a finally block
ClassifyCompletes_NoFinally ==
    /\ pending # <<>>
    /\ \E answer \in ClassifyAnswers :
          LET input == Head(pending)
              outcome == classifyRemote(input, answer, now)
          IN  /\ IF outcome.kind = "resolved"
                 THEN /\ mountCard(handleAddItem(items,
                                          newItem(nextId + 1, outcome.value.refinedText,
                                                  outcome.value.category,
                                                  deadlineTimestamp(outcome.value), now)),
                                nextId + 1)
                      /\ nextId' = nextId + 1
                      /\ inputText' = ""
                      /\ UNCHANGED <<notifications, isSettingsOpen>>
                 ELSE /\ IF outcome.error \in {"AUTH_ERROR", "QUOTA_ERROR"}
                         THEN /\ notifications' = handleApiError(notifications, outcome.error)
                              /\ isSettingsOpen' = TRUE
                         ELSE UNCHANGED <<notifications, isSettingsOpen>>
                      /\ lastPreview' = NoPreview
                      /\ UNCHANGED <<items, nextId, inputText, loadingCards, previewCalls>>
              /\ lastClassify' = [called |-> TRUE, input |-> input, answer |-> answer,
                                  outcome |-> outcome, added |-> outcome.kind = "resolved"]
    /\ pending' = Tail(pending)
    /\ isProcessing' = (lastClassify'.outcome.kind = "rejected")
    /\ lastOp' = "ClassifyCompletes"
    /\ UNCHANGED <<now, userOps, apiKey, linkPreviewCache, settled>>
    /\ UNCHANGED widgetVars

\* The remote call answers and handleSubmit runs to its end: the try block
\* builds and adds the item, the catch block reports AUTH_ERROR and
\* QUOTA_ERROR, the finally block clears isProcessing.
ClassifyCompletes ==
    /\ pending # <<>>
    /\ \E answer \in ClassifyAnswers :
          LET input == Head(pending)
              outcome == classifyRemote(input, answer, now)
          IN  /\ IF outcome.kind = "resolved"
                 THEN /\ mountCard(handleAddItem(items,
                                          newItem(nextId + 1, outcome.value.refinedText,
                                                  outcome.value.category,
                                                  deadlineTimestamp(outcome.value), now)),
                                nextId + 1)
                      /\ nextId' = nextId + 1
                      /\ inputText' = ""
                      /\ UNCHANGED <<notifications, isSettingsOpen>>
                 ELSE /\ IF outcome.error \in {"AUTH_ERROR", "QUOTA_ERROR"}
                         THEN /\ notifications' = handleApiError(notifications, outcome.error)
                              /\ isSettingsOpen' = TRUE
                         ELSE UNCHANGED <<notifications, isSettingsOpen>>
                      /\ lastPreview' = NoPreview
                      /\ UNCHANGED <<items, nextId, inputText, loadingCards, previewCalls>>
              /\ lastClassify' = [called |-> TRUE, input |-> input, answer |-> answer,
                                  outcome |-> outcome, added |-> outcome.kind = "resolved"]
    /\ pending' = Tail(pending)
    /\ isProcessing' = FALSE
    /\ lastOp' = "ClassifyCompletes"
    /\ UNCHANGED <<now, userOps, apiKey, linkPreviewCache, settled>>
    /\ UNCHANGED widgetVars

\* handleKeyDown of the input field that has no apiKey prop: on Enter it
\* awaits classifyInput(text), called without credentials, builds the item
\* from the result, adds it and clears the text. A call that went to the
\* remote classifier would stay outstanding.
KeyDown ==
    /\ trim(inputText) # "" /\ ~isProcessing
    /\ UserOp
    /\ lastOp' = "KeyDown"
    /\ LET start == classifyLocal(inputText, "", now)
       IN  IF start.settles
           THEN /\ mountCard(handleAddItem(items,
                                    newItem(nextId + 1, start.outcome.value.refinedText,
                                            start.outcome.value.category,
                                            deadlineTimestamp(start.outcome.value), now)),
                          nextId + 1)
                /\ nextId' = nextId + 1
                /\ inputText' = ""
                /\ lastClassify' = [called |-> TRUE, input |-> inputText, answer |-> Reject(""),
                                    outcome |-> start.outcome, added |-> TRUE]
                /\ UNCHANGED <<isProcessing, pending>>
           ELSE /\ isProcessing' = TRUE
                /\ pending' = Append(pending, inputText)
                /\ lastPreview' = NoPreview
                /\ UNCHANGED <<items, nextId, inputText, lastClassify, loadingCards, previewCalls>>
    /\ UNCHANGED <<now, notifications, apiKey, isSettingsOpen, linkPreviewCache, settled>>
    /\ UNCHANGED widgetVars

\* ------------------------------------------------------------------ the recommendation gateway

READING_CACHE_TTL == 24 * 60 * 60 * 1000

\* a suggestion, by the two fields the code reads: title and url
ReadingSuggestion(title, url) == [title |-> title, url |-> url]

\* the parsed content of localStorage's mindsort_reading_cache; NoCache is
\* cached = null
NoCache == [present |-> FALSE, timestamp |-> 0, data |-> <<>>]
CacheEntry(timestamp, data) == [present |-> TRUE, timestamp |-> timestamp, data |-> data]

\* slice that does not cut
slice_Whole(list, n) == list

\* list.slice(0, n)
slice(list, n) == SubSeq(list, 1, IF Len(list) < n THEN Len(list) ELSE n)

\* list.filter(item => !userReadItems.includes(item.url))
unread(list, userReadItems) == SelectSeq(list, LAMBDA s : ~Includes(userReadItems, s.url))

FallbackPool ==
    << ReadingSuggestion("The Unreasonable Effectiveness of Recurrent Neural Networks",
                         "https://karpathy.github.io/2015/05/21/rnn-effectiveness/"),
       ReadingSuggestion("Attention Is All You Need", "https://arxiv.org/abs/1706.03762"),
       ReadingSuggestion("Prompt Engineering Guide", "https://www.promptingguide.ai/"),
       ReadingSuggestion("The Illustrated Transformer",
                         "http://jalammar.github.io/illustrated-transformer/"),
       ReadingSuggestion("OpenAI GPT-4 Technical Report", "https://arxiv.org/abs/2303.08774"),
       ReadingSuggestion("Distill.pub: A Gentle Introduction to Graph Neural Networks",
                         "https://distill.pub/2021/gnn-intro/"),
       ReadingSuggestion("Why AI Will Save the World",
                         "https://a16z.com/why-ai-will-save-the-world/") >>

\* getFallbackSuggestions: the unread part of the pool, sorted with a random
\* comparator, cut to three. Any three (or all, when fewer are left) of the
\* unread entries can come out, in any order; no code reads the order of a
\* list of suggestions, so the lists are kept in pool order. The value is the
\* set of the lists the call can return.
getFallbackSuggestions(userReadItems) ==
    LET pool == unread(FallbackPool, userReadItems)
        n == Len(pool)
        k == IF n < 3 THEN n ELSE 3
        picks == {q \in SUBSET (1..n) : Cardinality(q) = k}
        nth(q, i) == CHOOSE x \in q : Cardinality({y \in q : y < x}) = i - 1
    IN  {[i \in 1..k |-> pool[nth(q, i)]] : q \in picks}

\* how a getReadingSuggestion promise settles
Returned(list) == [kind |-> "resolved", value |-> list, error |-> ""]
Thrown(error) == [kind |-> "rejected", value |-> <<>>, error |-> error]

\* What ai.models.generateContent can answer to the recommendation prompt: a
\* rejection with a message, or a response whose text is empty (which is no
\* JSON), is the empty array, or is the JSON of a list of suggestions.
ReadingReject(msg) == [kind |-> "reject", message |-> msg, text |-> "", list |-> <<>>]
ReadingResponse(text, list) == [kind |-> "response", message |-> "", text |-> text, list |-> list]

\* the batches the recommender answers with: a short one, and a longer one
\* with an entry that lacks its title and url
RemoteBatches ==
    { << ReadingSuggestion("A1", "https://a.example/1"), ReadingSuggestion("A2", "https://a.example/2") >>,
      << ReadingSuggestion("A1", "https://a.example/1"), ReadingSuggestion("B2", "https://b.example/2"),
         ReadingSuggestion("B3", "https://b.example/3"), ReadingSuggestion("", "") >> }

ReadingAnswers ==
    {ReadingReject(m) : m \in ErrorMessages}
        \cup {ReadingResponse("", <<>>), ReadingResponse("[]", <<>>)}
        \cup {ReadingResponse("json", b) : b \in RemoteBatches}

ReadingFailed(answer) == answer.kind = "reject" \/ answer.text # "json"

\* items.map(i => ({title: i.title || "Interesting Read", url: i.url || "#", ...}))
validItems(list) ==
    [i \in 1..Len(list) |->
        ReadingSuggestion(IF list[i].title = "" THEN "Interesting Read" ELSE list[i].title,
                          IF list[i].url = "" THEN "#" ELSE list[i].url)]

\* servesCache without the test of the entry's age
servesCache_IgnoresTtl(cached, userReadItems, forceRefresh, t) ==
    /\ ~forceRefresh
    /\ cached.present
    /\ Len(unread(cached.data, userReadItems)) > 0

\* servesCache that serves an entry whose suggestions have all been read
servesCache_ServesExhausted(cached, userReadItems, forceRefresh, t) ==
    /\ ~forceRefresh
    /\ cached.present
    /\ t - cached.timestamp < READING_CACHE_TTL

\* step 2 of getReadingSuggestion: the cache entry is served
servesCache(cached, userReadItems, forceRefresh, t) ==
    /\ ~forceRefresh
    /\ cached.present
    /\ t - cached.timestamp < READING_CACHE_TTL
    /\ Len(unread(cached.data, userReadItems)) > 0

\* the call goes on to the remote recommender
invokesRemote(cached, userReadItems, forceRefresh, key, t) ==
    ~servesCache(cached, userReadItems, forceRefresh, t) /\ key # ""

\* steps 2 and 3 of getReadingSuggestion: the lists the call can return
\* without the remote recommender
readingLocal(cached, userReadItems, forceRefresh, t) ==
    IF servesCache(cached, userReadItems, forceRefresh, t)
    THEN {slice(unread(cached.data, userReadItems), 3)}
    ELSE IF cached.present /\ Len(unread(cached.data, userReadItems)) > 0
    THEN {slice(unread(cached.data, userReadItems), 3)}
    ELSE getFallbackSuggestions(userReadItems)

\* the catch block of getReadingSuggestion: handleError(error), then the
\* cached data or the fallback pool if handleError returns
readingCatch(msg, cached, userReadItems) ==
    IF handleError(msg).throws
    THEN {Thrown(handleError(msg).error)}
    ELSE IF cached.present
    THEN {Returned(slice(unread(cached.data, userReadItems), 3))}
    ELSE {Returned(r) : r \in getFallbackSuggestions(userReadItems)}

\* getReadingSuggestion once the remote recommender has answered: the ways
\* the promise can settle
readingRemote(cached, userReadItems, answer) ==
    IF answer.kind = "reject"
    THEN readingCatch(answer.message, cached, userReadItems)
    ELSE IF answer.text # "json" \/ Len(answer.list) = 0
    THEN readingCatch("Invalid format or empty list", cached, userReadItems)
    ELSE {Returned(slice(unread(validItems(answer.list), userReadItems), 3))}

\* cacheAfter that keeps the old entry when the new batch is smaller
cacheAfter_KeepsLarger(cache, answer, t) ==
    IF /\ answer.kind = "response" /\ answer.text = "json" /\ Len(answer.list) > 0
       /\ (cache.present => Len(answer.list) >= Len(cache.data))
    THEN CacheEntry(t, validItems(answer.list))
    ELSE cache

\* step 4: the cache entry after the remote recommender has answered at t
cacheAfter(cache, answer, t) ==
    IF answer.kind = "response" /\ answer.text = "json" /\ Len(answer.list) > 0
    THEN CacheEntry(t, validItems(answer.list))
    ELSE cache

\* ------------------------------------------------------------------ the reading widget

MaxReads == 1          \* suggestions marked as read in a run
MaxCalls == 2          \* recommendation calls outstanding at once

\* a getReadingSuggestion call that waits for the remote recommender: its
\* arguments and the cache entry it read on entry
Call(userReadItems, forceRefresh, key, cached) ==
    [userReadItems |-> userReadItems, forceRefresh |-> forceRefresh, apiKey |-> key,
     cached |-> cached]

NoSuggest ==
    [called |-> FALSE, call |-> Call(<<>>, FALSE, "", NoCache), remote |-> FALSE,
     answer |-> ReadingReject(""), outcome |-> Thrown("")]

\* A session of the reading widget starts one grain before the end of the
\* run. The cache entries an earlier session can have left in localStorage:
\* none, or one written 23 h 45 min before the start, which expires one grain
\* into the session.
ReadingStart == MaxNow - ClockGrain
StoredBatch == << ReadingSuggestion("S1", "https://s.example/1") >>
StoredCaches == {NoCache, CacheEntry(ReadingStart - READING_CACHE_TTL + ClockGrain, StoredBatch)}

\* fetchSuggestions(force), run by a render whose props are history and key
\* while the widget shows `shown`. The call either settles at once (cache,
\* expired cache or fallback pool) and the widget takes the result, or it goes
\* to the remote recommender and stays outstanding.
fetchSuggestions(force, history, key, shown) ==
    LET call == Call(history, force, key, readingCache)
    IN  IF invokesRemote(readingCache, history, force, key, now)
        THEN /\ Len(calls) < MaxCalls
             /\ calls' = Append(calls, call)
             /\ loading' = TRUE
             /\ suggestions' = shown
             /\ lastSuggest' = NoSuggest
        ELSE /\ \E result \in readingLocal(readingCache, history, force, now) :
                   /\ suggestions' = IF Len(result) > 0 THEN result ELSE shown
                   /\ lastSuggest' = [called |-> TRUE, call |-> call, remote |-> FALSE,
                                      answer |-> ReadingReject(""), outcome |-> Returned(result)]
             /\ loading' = FALSE
             /\ UNCHANGED calls

\* the widget's effect on mount: fetchSuggestions(false)
Mount ==
    /\ ~mounted
    /\ mounted' = TRUE
    /\ fetchSuggestions(FALSE, readHistory, apiKey, suggestions)
    /\ lastOp' = "Mount"
    /\ UNCHANGED <<readingCache, readHistory>>
    /\ UNCHANGED <<items, now, notifications, nextId, userOps>>
    /\ UNCHANGED inputVars
    /\ UNCHANGED linkVars

handleMarkRead(prev, url) == Append(prev, url)

\* handleCheck(url) on a suggestion on screen: onMarkRead(url), the
\* suggestion is removed from view, and the effect, whose dependency
\* readHistory.length has changed, runs fetchSuggestions(false)
MarkRead ==
    /\ mounted
    /\ Len(readHistory) < MaxReads
    /\ \E i \in 1..Len(suggestions) :
          LET url == suggestions[i].url
          IN  /\ readHistory' = handleMarkRead(readHistory, url)
              /\ fetchSuggestions(FALSE, handleMarkRead(readHistory, url), apiKey,
                                  SelectSeq(suggestions, LAMBDA s : s.url # url))
    /\ lastOp' = "MarkRead"
    /\ UNCHANGED <<mounted, readingCache>>
    /\ UNCHANGED <<items, now, notifications, nextId, userOps>>
    /\ UNCHANGED inputVars
    /\ UNCHANGED linkVars

\* the refresh button, disabled while loading: fetchSuggestions(true)
Refresh ==
    /\ mounted
    /\ ~loading
    /\ fetchSuggestions(TRUE, readHistory, apiKey, suggestions)
    /\ lastOp' = "Refresh"
    /\ UNCHANGED <<mounted, readingCache, readHistory>>
    /\ UNCHANGED <<items, now, notifications, nextId, userOps>>
    /\ UNCHANGED inputVars
    /\ UNCHANGED linkVars

\* the settings form stores or clears the credentials: setApiKey; a mounted
\* widget, whose effect depends on apiKey, runs fetchSuggestions(false)
SetApiKey ==
    /\ \E k \in {"", "key"} :
          /\ apiKey' = k
          /\ apiKey' # apiKey
          /\ IF mounted
             THEN fetchSuggestions(FALSE, readHistory, k, suggestions)
             ELSE UNCHANGED <<suggestions, loading, calls, lastSuggest>>
    /\ lastOp' = "SetApiKey"
    /\ UNCHANGED <<mounted, readingCache, readHistory>>
    /\ UNCHANGED <<items, now, notifications, nextId, userOps>>
    /\ UNCHANGED <<inputText, isProcessing, pending, isSettingsOpen, lastClassify>>
    /\ UNCHANGED linkVars

\* The remote recommender answers an outstanding call: getReadingSuggestion
\* runs to its end (cache write on success, catch block on failure) and
\* fetchSuggestions takes a non-empty result, swallows a rejection and clears
\* loading.
RecommendCompletes ==
    /\ \E i \in 1..Len(calls), answer \in ReadingAnswers :
          LET call == calls[i]
          IN  \E outcome \in readingRemote(call.cached, call.userReadItems, answer) :
                 /\ readingCache' = cacheAfter(readingCache, answer, now)
                 /\ suggestions' = IF outcome.kind = "resolved" /\ Len(outcome.value) > 0
                                   THEN outcome.value ELSE suggestions
                 /\ calls' = SubSeq(calls, 1, i - 1) \o SubSeq(calls, i + 1, Len(calls))
                 /\ lastSuggest' = [called |-> TRUE, call |-> call, remote |-> TRUE,
                                    answer |-> answer, outcome |-> outcome]
    /\ loading' = FALSE
    /\ lastOp' = "RecommendCompletes"
    /\ UNCHANGED <<mounted, readHistory>>
    /\ UNCHANGED <<items, now, notifications, nextId, userOps>>
    /\ UNCHANGED inputVars
    /\ UNCHANGED linkVars

\* ------------------------------------------------------------------ specifications

\* the state of the App component after construction, but for what it
\* loads from localStorage
InitState ==
    /\ notifications = <<>>
    /\ userOps = 0
    /\ lastOp = "Init"
    /\ isProcessing = FALSE
    /\ pending = <<>>
    /\ isSettingsOpen = FALSE
    /\ lastClassify = NoCall
    /\ mounted = FALSE
    /\ readHistory = <<>>
    /\ suggestions = <<>>
    /\ loading = FALSE
    /\ calls = <<>>
    /\ lastSuggest = NoSuggest
    /\ linkPreviewCache = {}
    /\ loadingCards = {}
    /\ previewCalls = <<>>
    /\ lastPreview = NoPreview
    /\ settled = {}

InitApp ==
    /\ InitState
    /\ items = <<>>
    /\ nextId = 0
    /\ inputText = ""

\* a first session: nothing in localStorage
Init == InitApp /\ now = StartNow /\ apiKey = "" /\ readingCache = NoCache

\* a session that may find the credentials and a recommendation cache entry
\* of an earlier one in localStorage
InitReading ==
    InitApp /\ now = ReadingStart /\ apiKey \in {"", "key"} /\ readingCache \in StoredCaches

Next ==
    \/ Tick
    \/ AdvanceTime
    \/ AddItem
    \/ ToggleItem
    \/ DeleteItem
    \/ MoveItem

vars == <<storeVars, inputVars, widgetVars, linkVars>>

\* the reminder scheduler over the item store
Spec == Init /\ [][Next]_vars

\* The scheduler on its 30 s interval: every step of the clock is one poll
\* interval and ends with the tick that is due then. It runs over items
\* that stay active: they are added, moved and deleted, not completed.
MaxPollSteps == 33     \* poll intervals in a run
PollEnd == StartNow + MaxPollSteps * PollInterval

\* the time to the deadline of the items added in these runs: one poll
\* interval, a millisecond more, and a millisecond more than 15 min 30 s
DueIn == {PollInterval, PollInterval + 1, 15 * MsPerMinute + PollInterval + 1}

\* an item with a deadline DueIn from now enters the store
AddDue ==
    /\ UserOp
    /\ lastOp' = "AddDue"
    /\ nextId < MaxItems
    /\ \E d \in DueIn :
          mountCard(handleAddItem(items, newItem(nextId + 1, "call", TODO, now + d, now)),
                    nextId + 1)
    /\ nextId' = nextId + 1
    /\ UNCHANGED <<now, notifications, linkPreviewCache, settled>>
    /\ UNCHANGED inputVars
    /\ UNCHANGED widgetVars

\* setInterval(checkReminders, 30000): the interval passes, the
\* notifications on screen, older than 6 s, have removed themselves, and
\* checkReminders runs at the new instant.
PollTick ==
    /\ now + PollInterval <= PollEnd
    /\ now' = now + PollInterval
    /\ items' = checkReminders(items, now + PollInterval).items
    /\ notifications' = addNotifications(IF PollInterval >= NotificationTtl THEN <<>> ELSE notifications,
                                         checkReminders(items, now + PollInterval).queued)
    /\ lastOp' = "PollTick"
    /\ UNCHANGED <<nextId, userOps>>
    /\ UNCHANGED inputVars
    /\ UNCHANGED widgetVars
    /\ UNCHANGED linkVars

PollNext ==
    \/ PollTick
    \/ AddDue
    \/ MoveItem
    \/ DeleteItem

SpecPoll == Init /\ [][PollNext]_vars

\* the add-item flow: the input field, the classification gateway, the store
SubmitNext ==
    \/ TypeText
    \/ SetApiKey
    \/ CloseSettings
    \/ ExpireNotification
    \/ Submit
    \/ ClassifyCompletes

SpecSubmit == Init /\ [][SubmitNext]_vars

\* the add-item flow when every remote classification call is answered in
\* the end, by a response or by a rejection
SpecSubmitLive == Init /\ [][SubmitNext]_vars /\ WF_vars(ClassifyCompletes)

\* the reading widget over the recommendation gateway and its cache
ReadingNext ==
    \/ Mount
    \/ MarkRead
    \/ Refresh
    \/ RecommendCompletes
    \/ AdvanceTime

SpecReading == InitReading /\ [][ReadingNext]_vars

\* The input field that calls classifyInput without credentials, on the
\* texts that meet the keyword rules and the date phrases of localClassify.
ClassifyInputs ==
    { "Read a book", "http://x.example/a", "my goal: read more", "learn to swim tonight",
      "Note: milk", "call mom tomorrow", "remind me tomorrow", "Tonight or Tomorrow" }

InitClassify ==
    /\ InitState
    /\ items = <<>>
    /\ nextId = 0
    /\ inputText \in ClassifyInputs
    /\ now = StartNow
    /\ apiKey = ""
    /\ readingCache = NoCache

ClassifyNext ==
    \/ KeyDown
    \/ AdvanceTime

SpecClassify == InitClassify /\ [][ClassifyNext]_vars

\* The item cards and the link resolver. The session finds two items of an
\* earlier one in localStorage that name the same URL, one of them completed,
\* and no credentials: no card has started a call.
LinkUrl == "https://x.example/a"
StoredItems ==
    << [newItem(2, "see " \o LinkUrl \o " today", TODO, Undefined, 0) EXCEPT !.completed = TRUE],
       newItem(1, "read " \o LinkUrl, READ, Undefined, 0) >>

InitLinks ==
    /\ InitState
    /\ items = StoredItems
    /\ nextId = 2
    /\ inputText = ""
    /\ now = StartNow
    /\ apiKey = ""
    /\ readingCache = NoCache

LinksNext ==
    \/ SetApiKey
    \/ ToggleItem
    \/ MoveItem
    \/ DeleteItem
    \/ UpdateItem

SpecLinks == InitLinks /\ [][LinksNext]_vars

\* The store under the scheduler, the user and the link resolver at once.
\* The session finds the credentials and one item in localStorage, due half
\* an hour after its start and naming a URL; the card of the item has
\* started its getLinkPreview call on mount.
StoredDueItem ==
    newItem(1, "read " \o LinkUrl, READ, ReadingStart + 2 * ClockGrain, 0)

InitStore ==
    /\ items = <<StoredDueItem>>
    /\ nextId = 1
    /\ now = ReadingStart
    /\ apiKey = "key"
    /\ readingCache = NoCache
    /\ notifications = <<>>
    /\ userOps = 0
    /\ lastOp = "Init"
    /\ inputText = ""
    /\ isProcessing = FALSE
    /\ pending = <<>>
    /\ isSettingsOpen = FALSE
    /\ lastClassify = NoCall
    /\ mounted = FALSE
    /\ readHistory = <<>>
    /\ suggestions = <<>>
    /\ loading = FALSE
    /\ calls = <<>>
    /\ lastSuggest = NoSuggest
    /\ linkPreviewCache = {}
    /\ loadingCards = {1}
    /\ previewCalls = <<PreviewCall(1, LinkUrl)>>
    /\ lastPreview = NoPreview
    /\ settled = {}

StoreNext ==
    \/ Tick
    \/ AdvanceTime
    \/ AddItem
    \/ ToggleItem
    \/ MoveItem
    \/ DeleteItem
    \/ UpdateItem

SpecStore == InitStore /\ [][StoreNext]_vars

\* ------------------------------------------------------------------ properties of the reminder scheduler

\* an item the scheduler considers: not completed, with a deadline
Active(item) == ~item.completed /\ Truthy(item.deadline)

Remaining(item) == item.deadline - now

\* the priority order far -> day -> hour -> imminent
Rank(k) == CASE k = "24h" -> 1 [] k = "today" -> 2 [] k = "1h" -> 3 [] k = "15m" -> 4 [] OTHER -> 0

\* a step that is a poll tick which changed something: the clock stands
\* still and no user operation is counted
TickStep == now' = now /\ userOps' = userOps /\ items' # items

\* C1: notifiedStages grows only in the order far -> day -> hour -> imminent:
\* in every item the recorded tags stand in strictly increasing priority, so
\* no lower stage was appended after a higher one.
C1_StagesInPriorityOrder ==
    \A i \in 1..Len(items) :
        \A j, k \in 1..Len(items[i].notifiedStages) :
            j < k => Rank(items[i].notifiedStages[j]) < Rank(items[i].notifiedStages[k])

\* C2: no item's notifiedStages holds the same tag twice, and every tag is
\* one of 24h, today, 1h, 15m, whatever ticks and user operations happened.
C2_StagesDistinctAndInVocabulary ==
    \A i \in 1..Len(items) :
        LET st == items[i].notifiedStages
        IN  /\ \A j \in 1..Len(st) : st[j] \in StageVocabulary
            /\ \A j, k \in 1..Len(st) : j # k => st[j] # st[k]

\* C2 witness: an item got two stages from two ticks and a user operation
\* (a toggle or a move) touched it as well.
C2_Witness ==
    \E i \in 1..Len(items) :
        /\ Len(items[i].notifiedStages) >= 2
        /\ \/ items[i].completed
           \/ items[i].category = NOTE

\* C3: a poll tick leaves the notifiedStages of every item whose deadline is
\* not after the current time as it was, and queues no message beyond the ones
\* of the items whose stages grew (so none for an expired item).
C3_PastDeadlineNeverFires ==
    [][TickStep =>
        /\ \A i \in 1..Len(items) :
              (Truthy(items[i].deadline) /\ items[i].deadline <= now)
                  => items'[i].notifiedStages = items[i].notifiedStages
        /\ Len(notifications') - Len(notifications) =
              Cardinality({i \in 1..Len(items) :
                              items'[i].notifiedStages # items[i].notifiedStages})
     ]_vars

\* C3 witness: a tick has just run over an expired active item that never got
\* the imminent tag, and over another item for which it fired a stage.
C3_Witness ==
    /\ lastOp = "Tick"
    /\ notifications # <<>>
    /\ \E i \in 1..Len(items) :
          /\ Active(items[i]) /\ items[i].deadline <= now
          /\ ~Includes(items[i].notifiedStages, "15m")

\* C4: a second run of checkReminders at the same instant, right after the
\* first, appends no tag and queues no message.
C4_SecondRunChangesNothing ==
    LET first  == checkReminders(items, now)
        second == checkReminders(first.items, now)
    IN  second.items = first.items /\ second.queued = <<>>

\* C5: one poll tick appends at most one tag to an item, and an item with no
\* tag and 0 < remaining <= 15 min gets the imminent tag alone.
C5_OneStagePerTick ==
    [][TickStep =>
        \A i \in 1..Len(items) :
            /\ Len(items'[i].notifiedStages) <= Len(items[i].notifiedStages) + 1
            /\ ( /\ Active(items[i]) /\ items[i].notifiedStages = <<>>
                 /\ Remaining(items[i]) > 0 /\ Remaining(items[i]) <= 15 * MsPerMinute )
               => items'[i].notifiedStages = <<"15m">>
     ]_vars

\* C5 witness: a tick has just given the imminent tag, and only it, to an item
\* within 15 minutes of its deadline.
C5_Witness ==
    /\ lastOp = "Tick"
    /\ \E i \in 1..Len(items) :
          /\ Active(items[i]) /\ items[i].notifiedStages = <<"15m">>
          /\ Remaining(items[i]) > 0 /\ Remaining(items[i]) <= 15 * MsPerMinute
          /\ \E m \in 1..Len(notifications) :
                notifications[m] = "Due in 15 mins: " \o items[i].text

\* The table of thresholds as the specification words it, first match wins;
\* rule 2 is "remaining <= 1 hour and hour not sent".
TableStage(item, t) ==
    LET remaining == item.deadline - t
        sent(k) == Includes(item.notifiedStages, k)
        today == toDateString(item.deadline) = toDateString(t)
    IN  IF remaining <= 15 * MsPerMinute /\ ~sent("15m") THEN "15m"
        ELSE IF remaining <= 1 * MsPerHour /\ ~sent("1h") THEN "1h"
        ELSE IF today /\ ~sent("today") /\ remaining > 1 * MsPerHour THEN "today"
        ELSE IF remaining <= 24 * MsPerHour /\ ~today /\ ~sent("24h") THEN "24h"
        ELSE ""

\* The same table with rule 2 read as "15 min < remaining <= 1 hour and hour
\* not sent".
AmendedTableStage(item, t) ==
    LET remaining == item.deadline - t
        sent(k) == Includes(item.notifiedStages, k)
        today == toDateString(item.deadline) = toDateString(t)
    IN  IF remaining <= 15 * MsPerMinute /\ ~sent("15m") THEN "15m"
        ELSE IF remaining > 15 * MsPerMinute /\ remaining <= 1 * MsPerHour /\ ~sent("1h") THEN "1h"
        ELSE IF today /\ ~sent("today") /\ remaining > 1 * MsPerHour THEN "today"
        ELSE IF remaining <= 24 * MsPerHour /\ ~today /\ ~sent("24h") THEN "24h"
        ELSE ""

Appended(k) == IF k = "" THEN <<>> ELSE <<k>>

\* C6 as claimed: at every instant a poll tick gives every active item with
\* remaining > 0 exactly the tag the specification's table chooses.
C6_TickFollowsTable ==
    LET ticked == checkReminders(items, now).items
    IN  \A i \in 1..Len(items) :
            (Active(items[i]) /\ Remaining(items[i]) > 0)
                => ticked[i].notifiedStages
                     = items[i].notifiedStages \o Appended(TableStage(items[i], now))

\* C6 amended: the tag a poll tick gives is the one chosen by the table whose
\* rule 2 requires remaining > 15 min.
C6_TickFollowsAmendedTable ==
    LET ticked == checkReminders(items, now).items
    IN  \A i \in 1..Len(items) :
            (Active(items[i]) /\ Remaining(items[i]) > 0)
                => ticked[i].notifiedStages
                     = items[i].notifiedStages \o Appended(AmendedTableStage(items[i], now))

\* C6 witness: ticks have taken one item through rules 4, 3, 2 and 1 in turn.
C6_Witness ==
    \E i \in 1..Len(items) : items[i].notifiedStages = <<"24h", "today", "1h", "15m">>

\* C7: no stage has been recorded for an item while its deadline is more than
\* 24 hours away: the first stage fires only once remaining <= 24 hours.
C7_NothingFiresBeyond24h ==
    \A i \in 1..Len(items) :
        Remaining(items[i]) > 24 * MsPerHour => items[i].notifiedStages = <<>>

\* C7 witness: a tick has just run over an active item due on a later day,
\* more than 24 hours away, and recorded nothing.
C7_Witness ==
    /\ lastOp = "Tick"
    /\ \E i \in 1..Len(items) :
          /\ Active(items[i]) /\ Remaining(items[i]) > 24 * MsPerHour
          /\ toDateString(items[i].deadline) > toDateString(now)
          /\ items[i].notifiedStages = <<>>

\* C8: a poll tick returns every completed item and every item without a
\* deadline unchanged, and queues messages only for the items whose stages grew.
C8_InactiveItemsUntouched ==
    [][(now' = now /\ userOps' = userOps) =>
        /\ Len(items') = Len(items)
        /\ \A i \in 1..Len(items) : ~Active(items[i]) => items'[i] = items[i]
        /\ Len(notifications') - Len(notifications) =
              Cardinality({i \in 1..Len(items) : Active(items[i]) /\ items'[i] # items[i]})
     ]_vars

\* C8 witness: a tick has just run over a completed item whose deadline is
\* within an hour and for which nothing was ever recorded.
C8_Witness ==
    /\ lastOp = "Tick"
    /\ \E i \in 1..Len(items) :
          /\ items[i].completed /\ Truthy(items[i].deadline)
          /\ Remaining(items[i]) > 0 /\ Remaining(items[i]) <= 1 * MsPerHour
          /\ items[i].notifiedStages = <<>>

\* the stage tags a step appends: the item's position before the step and
\* the tag's position in its notifiedStages after it
AppendedTags ==
    {p \in (1..Len(items)) \X (1..4) :
        /\ p[1] <= Len(items')
        /\ items'[p[1]].id = items[p[1]].id
        /\ p[2] > Len(items[p[1]].notifiedStages)
        /\ p[2] <= Len(items'[p[1]].notifiedStages)}

\* the notifications a step enqueues
Enqueued ==
    IF Len(notifications') > Len(notifications)
    THEN SubSeq(notifications', Len(notifications) + 1, Len(notifications'))
    ELSE <<>>

\* C23: a poll tick enqueues as many notifications as it appends stage tags,
\* one for each tag, which is the message of that stage with the text of the
\* item; no other step of the scheduler and the store appends a tag or
\* enqueues a notification.
C23_OneNotificationPerStage ==
    [][IF now' = now /\ userOps' = userOps
       THEN /\ Len(Enqueued) = Cardinality(AppendedTags)
            /\ \A p \in AppendedTags :
                   \E j \in 1..Len(Enqueued) :
                       /\ Enqueued[j] = message(items'[p[1]].notifiedStages[p[2]], items[p[1]].text)
                       /\ includes(Enqueued[j], items[p[1]].text)
            /\ \A j \in 1..Len(Enqueued) :
                   \E p \in AppendedTags :
                       Enqueued[j] = message(items'[p[1]].notifiedStages[p[2]], items[p[1]].text)
       ELSE /\ Enqueued = <<>>
            /\ \A i \in 1..Len(items), j \in 1..Len(items') :
                   items'[j].id = items[i].id => items'[j].notifiedStages = items[i].notifiedStages
      ]_vars

\* C23 witness: one tick has fired a stage for each of two items with
\* different texts and both notifications are on screen.
C23_Witness ==
    /\ lastOp = "Tick"
    /\ Len(items) = 2 /\ Len(notifications) = 2
    /\ items[1].text # items[2].text
    /\ includes(notifications[1], items[1].text)
    /\ includes(notifications[2], items[2].text)
    /\ Len(items[1].notifiedStages) = 1 /\ Len(items[2].notifiedStages) = 1

\* C24: a poll tick leaves the number and the order of the items and every
\* field of every item but notifiedStages as they are, and no step changes
\* the deadline or the creation time of an item that stays in the store.
C24_TickTouchesOnlyStages ==
    [][/\ (now' = now /\ userOps' = userOps)
              => /\ Len(items') = Len(items)
                 /\ \A i \in 1..Len(items) :
                        /\ items'[i].id = items[i].id
                        /\ items'[i].text = items[i].text
                        /\ items'[i].category = items[i].category
                        /\ items'[i].createdAt = items[i].createdAt
                        /\ items'[i].completed = items[i].completed
                        /\ items'[i].deadline = items[i].deadline
                        /\ items'[i].linkPreview = items[i].linkPreview
       /\ \A i \in 1..Len(items), j \in 1..Len(items') :
              items'[j].id = items[i].id
                  => /\ items'[j].deadline = items[i].deadline
                     /\ items'[j].createdAt = items[i].createdAt
      ]_vars

\* C24 witness: a tick has fired a stage for an item that was moved to
\* another column before.
C24_Witness ==
    /\ lastOp = "Tick"
    /\ Len(notifications) >= 1
    /\ \E i \in 1..Len(items) :
          /\ items[i].category = NOTE
          /\ Truthy(items[i].deadline)
          /\ Len(items[i].notifiedStages) >= 1

\* ------------------------------------------------------------------ properties of the classification gateway

\* C9: when the remote classification call fails for any reason with
\* credentials present, classifyInput does not reject but returns the result
\* of the local fallback classifier, and the add-item flow adds an item built
\* from it.
C9_RemoteFailureFallsBackToLocal ==
    (lastClassify.called /\ RemoteFailed(lastClassify.answer))
        => /\ lastClassify.outcome.kind = "resolved"
           /\ lastClassify.outcome.value = localClassify(lastClassify.input, now)
           /\ lastClassify.added

\* ------------------------------------------------------------------ properties of the recommendation gateway

\* C10: getReadingSuggestion never rejects, and when the remote recommender
\* has failed (a rejection, an empty or unparsable answer, an empty list) it
\* returns the unread part of the cache entry if there is one, else a list
\* drawn from the unread part of the fallback pool (empty when none is left).
C10_RemoteFailureDegrades ==
    lastSuggest.called =>
        /\ lastSuggest.outcome.kind = "resolved"
        /\ (lastSuggest.remote /\ ReadingFailed(lastSuggest.answer)) =>
              IF lastSuggest.call.cached.present
              THEN lastSuggest.outcome.value
                     = slice(unread(lastSuggest.call.cached.data, lastSuggest.call.userReadItems), 3)
              ELSE lastSuggest.outcome.value \in getFallbackSuggestions(lastSuggest.call.userReadItems)

\* a step in which the widget ran fetchSuggestions without force (mount, or
\* the effect after a suggestion was marked as read), and one in which it ran
\* it with or without force
UnforcedFetchStep == lastOp' \in {"Mount", "MarkRead"}
FetchStep == lastOp' \in {"Mount", "MarkRead", "Refresh"}

\* the step sent one more call to the remote recommender, with the cache
\* entry and the read history of the request
RemoteInvoked ==
    /\ Len(calls') = Len(calls) + 1
    /\ calls'[Len(calls')].cached = readingCache
    /\ calls'[Len(calls')].userReadItems = readHistory'

\* the step settled its call at once, with this list, and sent nothing to
\* the remote recommender
SettledLocally(list) ==
    /\ calls' = calls
    /\ lastSuggest'.called /\ ~lastSuggest'.remote
    /\ lastSuggest'.outcome = Returned(list)

\* C11: an unforced request made while the cache entry is younger than 24 h
\* and holds a suggestion that is not in readHistory returns the unread cached
\* suggestions (the first three) and sends nothing to the remote recommender;
\* a request made with credentials when the entry is 24 h old or older is
\* sent to the remote recommender.
C11_CacheValidByTtl ==
    [][readingCache.present =>
        LET fresh == now - readingCache.timestamp < READING_CACHE_TTL
            left == unread(readingCache.data, readHistory')
        IN  /\ (UnforcedFetchStep /\ fresh /\ Len(left) > 0) => SettledLocally(slice(left, 3))
            /\ (FetchStep /\ ~fresh /\ apiKey # "") => RemoteInvoked
     ]_vars

\* C11 witness: with credentials present, the request that followed a mark
\* as read was answered from the entry, still fresh, without the suggestion
\* just read.
C11_Witness ==
    /\ lastOp = "MarkRead" /\ apiKey # ""
    /\ lastSuggest.called /\ ~lastSuggest.remote
    /\ readingCache.present /\ now - readingCache.timestamp < READING_CACHE_TTL
    /\ Len(readHistory) > 0
    /\ Len(lastSuggest.outcome.value) > 0
    /\ Len(lastSuggest.outcome.value) < Len(readingCache.data)
    /\ lastSuggest.outcome.value = slice(unread(readingCache.data, readHistory), 3)

\* C12: an unforced request made with credentials while the cache entry is
\* younger than 24 h but every cached URL is in readHistory is not answered
\* with the (empty) filtered entry: it is sent to the remote recommender.
C12_ExhaustedEntryIsRefreshed ==
    [][(/\ UnforcedFetchStep /\ apiKey # ""
        /\ readingCache.present
        /\ now - readingCache.timestamp < READING_CACHE_TTL
        /\ Len(unread(readingCache.data, readHistory')) = 0)
          => (RemoteInvoked /\ ~lastSuggest'.called)
     ]_vars

\* C12 witness: the last cached suggestion was just marked as read while the
\* entry was fresh, and the request that followed is outstanding at the remote
\* recommender.
C12_Witness ==
    /\ lastOp = "MarkRead" /\ apiKey # ""
    /\ Len(calls) > 0
    /\ LET call == calls[Len(calls)]
       IN  /\ ~call.forceRefresh
           /\ call.cached.present /\ Len(call.cached.data) > 0
           /\ now - call.cached.timestamp < READING_CACHE_TTL
           /\ Len(unread(call.cached.data, call.userReadItems)) = 0

\* C13: when the remote recommender answers a call with a non-empty batch,
\* whatever sent the call there, the cache entry becomes that batch with
\* timestamp = now, whatever entry was there before, and the call returns the
\* batch without the URLs of the readHistory it was given (the first three).
C13_RefreshReplacesEntry ==
    [][(/\ lastOp' = "RecommendCompletes"
        /\ lastSuggest'.called /\ lastSuggest'.remote
        /\ ~ReadingFailed(lastSuggest'.answer) /\ Len(lastSuggest'.answer.list) > 0)
          => LET batch == validItems(lastSuggest'.answer.list)
             IN  /\ readingCache' = CacheEntry(now, batch)
                 /\ lastSuggest'.outcome
                      = Returned(slice(unread(batch, lastSuggest'.call.userReadItems), 3))
     ]_vars

\* C13 witness: a refresh has just replaced an entry of four suggestions by a
\* batch of two.
C13_Witness ==
    /\ lastOp = "RecommendCompletes"
    /\ lastSuggest.called /\ lastSuggest.remote /\ ~ReadingFailed(lastSuggest.answer)
    /\ lastSuggest.call.cached.present
    /\ Len(lastSuggest.call.cached.data) > Len(lastSuggest.answer.list)
    /\ readingCache = CacheEntry(now, validItems(lastSuggest.answer.list))

\* C14: a list returned by getReadingSuggestion, on whatever path the call
\* settled, has at most three suggestions and none whose URL is in the
\* readHistory the call was given.
C14_AtMostThreeUnread ==
    (lastSuggest.called /\ lastSuggest.outcome.kind = "resolved")
        => LET value == lastSuggest.outcome.value
           IN  /\ Len(value) <= 3
               /\ \A i \in 1..Len(value) :
                     ~Includes(lastSuggest.call.userReadItems, value[i].url)

\* C14 witness: a refresh returned three suggestions of a batch of four, the
\* one left out being in the readHistory of the call.
C14_Witness ==
    /\ lastSuggest.called /\ lastSuggest.remote
    /\ lastSuggest.outcome.kind = "resolved"
    /\ Len(lastSuggest.outcome.value) = 3
    /\ Len(lastSuggest.answer.list) = 4
    /\ \E i \in 1..Len(lastSuggest.answer.list) :
          Includes(lastSuggest.call.userReadItems, lastSuggest.answer.list[i].url)

\* C27: no suggestion on display has a URL of the read history.
C27_DisplayedUnread ==
    \A i \in 1..Len(suggestions) : ~Includes(readHistory, suggestions[i].url)

\* ------------------------------------------------------------------ properties of the link resolver

\* C15: in every step, for every item that is in the store before and after
\* it, linkPreview either stays as it is or changes from absent to a
\* resolved preview or to null.
C15_PreviewSetOnce ==
    [][\A i \in 1..Len(items), j \in 1..Len(items') :
          (items'[j].id = items[i].id /\ items'[j].linkPreview # items[i].linkPreview)
              => (items[i].linkPreview = Absent /\ items'[j].linkPreview # Absent)]_vars

\* C16: once a getLinkPreview call for a URL has come back from the remote
\* resolver, with a preview, with null or with an error, no step starts
\* another remote call for that URL, and every later call for it settles as
\* that first one did.
C16_ResolutionMemoized ==
    [][\A s \in settled :
          /\ ~(/\ Len(previewCalls') > Len(previewCalls)
               /\ previewCalls'[Len(previewCalls')].url = s.url)
          /\ (lastPreview'.called /\ ~lastPreview'.remote /\ lastPreview'.url = s.url)
                 => lastPreview'.outcome = s.outcome]_vars

\* the step mounts a new card for the item at i before it and at j after it:
\* the item has changed its column or its section of the column
CardMounted(i, j) ==
    /\ items'[j].id = items[i].id
    /\ (items'[j].completed # items[i].completed \/ items'[j].category # items[i].category)

\* C17: while no credentials are stored, a step that mounts or removes cards
\* calls getLinkPreview for no item, starts no remote call and leaves every
\* linkPreview as it is (absent stays absent); with credentials stored, the
\* card mounted for an uncompleted item that holds a URL and whose
\* linkPreview is still absent attempts the resolution.
C17_NoAttemptWithoutCredentials ==
    [][/\ (apiKey = "" /\ lastOp' \in {"ToggleItem", "MoveItem", "DeleteItem"})
              => /\ ~lastPreview'.called
                 /\ Len(previewCalls') <= Len(previewCalls)
                 /\ \A i \in 1..Len(items), j \in 1..Len(items') :
                        items'[j].id = items[i].id
                            => items'[j].linkPreview = items[i].linkPreview
       /\ (apiKey # "" /\ lastOp' \in {"ToggleItem", "MoveItem"})
              => \A i \in 1..Len(items), j \in 1..Len(items') :
                     (/\ CardMounted(i, j)
                      /\ ~items'[j].completed
                      /\ firstUrl(items[i].text) # ""
                      /\ items[i].linkPreview = Absent)
                         => \/ \E k \in 1..Len(previewCalls') :
                                   previewCalls'[k] = PreviewCall(items[i].id, firstUrl(items[i].text))
                            \/ (lastPreview'.called /\ lastPreview'.id = items[i].id)]_vars

\* C17 witness: without credentials the card of an uncompleted item that
\* holds a URL has been mounted, no call was made and its linkPreview is
\* absent.
C17_Witness ==
    /\ apiKey = ""
    /\ lastOp \in {"ToggleItem", "MoveItem"}
    /\ previewCalls = <<>>
    /\ settled = {}
    /\ \E i \in 1..Len(items) :
          /\ items[i].id = 2
          /\ ~items[i].completed
          /\ firstUrl(items[i].text) = LinkUrl
          /\ items[i].linkPreview = Absent

\* C22: deleting an item cancels none of its outstanding getLinkPreview
\* calls, and when such a call completes after its item is gone, with a
\* preview, with null or with an error, the items are left as they are.
C22_LateResultDiscarded ==
    [][/\ lastOp' = "DeleteItem" => Len(previewCalls') = Len(previewCalls)
       /\ (lastOp' = "UpdateItem" /\ lastPreview'.id \notin ItemIds) => items' = items]_vars

\* C22 witness: a call has completed for an item that was deleted while the
\* call was outstanding; the other item is still in the store.
C22_Witness ==
    /\ lastOp = "UpdateItem"
    /\ lastPreview.called /\ lastPreview.remote
    /\ lastPreview.id \notin ItemIds
    /\ Len(items) = 1

\* ------------------------------------------------------------------ properties of the add-item flow

\* C18: no item holds an invalid timestamp as its deadline, and when
\* classifyInput has returned a result whose deadline string does not parse,
\* handleSubmit has added the item of that result, without a deadline.
C18_InvalidDeadlineDiscarded ==
    /\ \A i \in 1..Len(items) : items[i].deadline # NaN
    /\ (/\ lastOp = "ClassifyCompletes"
        /\ lastClassify.outcome.kind = "resolved"
        /\ lastClassify.outcome.value.deadline # ""
        /\ dateGetTime(lastClassify.outcome.value.deadline) = NaN)
           => /\ lastClassify.added
              /\ Len(items) > 0
              /\ items[1].id = nextId
              /\ items[1].text = lastClassify.outcome.value.refinedText
              /\ items[1].category = lastClassify.outcome.value.category
              /\ items[1].deadline = Undefined

\* C18 witness: the remote classifier answered with the deadline "next
\* friday" and the item is in the store without a deadline.
C18_Witness ==
    /\ lastOp = "ClassifyCompletes"
    /\ lastClassify.outcome.kind = "resolved"
    /\ lastClassify.outcome.value.deadline = "next friday"
    /\ dateGetTime("next friday") = NaN
    /\ Len(items) > 0
    /\ items[1].deadline = Undefined

\* the error handleError makes of the failure of the remote call
FailureKind(answer) ==
    IF answer.kind = "reject" THEN handleError(answer.message).error
    ELSE IF answer.text = "" THEN handleError("No response from Gemini").error
    ELSE handleError("Unexpected token < in JSON").error

\* C19: when the remote classification call has failed, an authentication
\* failure and a quota failure each add exactly one notice and open the
\* settings; any other failure adds no notice, leaves the settings as they
\* are, and the call returns the value of the local fallback classifier.
C19_FailuresSurfacedByKind ==
    [][(lastOp' = "ClassifyCompletes" /\ RemoteFailed(lastClassify'.answer))
          => IF FailureKind(lastClassify'.answer) \in {"AUTH_ERROR", "QUOTA_ERROR"}
             THEN /\ Len(notifications') = Len(notifications) + 1
                  /\ SubSeq(notifications', 1, Len(notifications)) = notifications
                  /\ isSettingsOpen'
             ELSE /\ notifications' = notifications
                  /\ isSettingsOpen' = isSettingsOpen
                  /\ lastClassify'.outcome.kind = "resolved"
                  /\ lastClassify'.outcome.value = localClassify(lastClassify'.input, now)]_vars

\* C20: a classifyInput call without credentials makes no remote call (none
\* becomes outstanding) and returns the result of localClassify for the
\* input, whose refined text is the input; the item added is built from it.
C20_NoCredentialsClassifiesLocally ==
    [][lastOp' = "KeyDown"
          => /\ pending' = pending
             /\ lastClassify'.called /\ lastClassify'.input = inputText
             /\ lastClassify'.outcome = Resolved_(localClassify(inputText, now))
             /\ lastClassify'.outcome.value.refinedText = inputText
             /\ lastClassify'.outcome.value.category \in Category
             /\ Len(items') = Len(items) + 1
             /\ items'[1].text = inputText
             /\ items'[1].category = localClassify(inputText, now).category]_vars

\* C20 witness: a call without credentials has classified "learn to swim
\* tonight" as a goal with a deadline, and nothing is outstanding.
C20_Witness ==
    /\ lastOp = "KeyDown"
    /\ apiKey = ""
    /\ pending = <<>>
    /\ lastClassify.called /\ lastClassify.input = "learn to swim tonight"
    /\ lastClassify.outcome.kind = "resolved"
    /\ lastClassify.outcome.value.category = GOAL
    /\ lastClassify.outcome.value.deadline # ""
    /\ Len(items) = 1 /\ items[1].text = "learn to swim tonight"

\* ------------------------------------------------------------------ properties of the local classifier

\* local midnight of the calendar day of t
Midnight(t) == toDateString(t) * DayMs

\* C21: a classification by the local classifier gives an input that holds
\* "tomorrow" a deadline at 09:00 of the next calendar day, an input that
\* holds "tonight" and not "tomorrow" a deadline at 20:00 of the same day,
\* and every other input no deadline; the item added stores that deadline.
C21_TwoDatePhrases ==
    [][lastOp' = "KeyDown"
          => LET lower == toLowerCase(inputText)
                 result == lastClassify'.outcome.value
             IN  IF includes(lower, "tomorrow")
                 THEN /\ dateGetTime(result.deadline) = Midnight(now) + DayMs + 9 * MsPerHour
                      /\ items'[1].deadline = Midnight(now) + DayMs + 9 * MsPerHour
                 ELSE IF includes(lower, "tonight")
                 THEN /\ dateGetTime(result.deadline) = Midnight(now) + 20 * MsPerHour
                      /\ items'[1].deadline = Midnight(now) + 20 * MsPerHour
                 ELSE /\ result.deadline = ""
                      /\ items'[1].deadline = Undefined]_vars

\* C21 witness: after midnight of day 1 an input that holds both phrases was
\* classified and its item is due at 09:00 of day 2.
C21_Witness ==
    /\ lastOp = "KeyDown"
    /\ now >= DayMs
    /\ lastClassify.input = "Tonight or Tomorrow"
    /\ Len(items) = 1
    /\ items[1].deadline = 2 * DayMs + 9 * MsPerHour

\* C29: a deadline that the local classifier gives is later than the instant
\* of the classification.
C29_LocalDeadlineInFuture ==
    [][(lastOp' = "KeyDown" /\ lastClassify'.outcome.value.deadline # "")
          => dateGetTime(lastClassify'.outcome.value.deadline) > now]_vars

\* ------------------------------------------------------------------ properties of the input field

\* C30: a submit of text that is not blank without credentials adds no
\* item, starts no classification (nothing becomes outstanding, nothing
\* settles, the field does not enter the processing state), keeps the typed
\* text, and appends the set-up notice and opens the settings.
C30_SubmitWithoutCredentials ==
    [][(lastOp' = "Submit" /\ apiKey = "")
          => /\ items' = items
             /\ nextId' = nextId
             /\ pending' = pending
             /\ isProcessing' = isProcessing
             /\ lastClassify' = lastClassify
             /\ inputText' = inputText
             /\ notifications' = Append(notifications, "Please setup your Gemini API Key first.")
             /\ isSettingsOpen']_vars

\* C30 witness: "Read a book" was submitted without credentials; the text
\* is in the field, the notice is queued and the settings are open.
C30_Witness ==
    /\ lastOp = "Submit"
    /\ apiKey = ""
    /\ inputText = "Read a book"
    /\ items = <<>>
    /\ pending = <<>>
    /\ ~isProcessing
    /\ isSettingsOpen
    /\ Len(notifications) >= 1

\* C25: when every remote classification call is answered in the end, the
\* input field that has entered the processing state leaves it again.
C25_ProcessingEnds == [](isProcessing => <>(~isProcessing))

\* C25 witness: the remote call of a submit was rejected for a reason that
\* is neither a credential nor a quota failure, and the input field is no
\* longer processing.
C25_Witness ==
    /\ lastOp = "ClassifyCompletes"
    /\ lastClassify.outcome.kind = "rejected"
    /\ lastClassify.outcome.error = "Failed to fetch"
    /\ ~isProcessing
    /\ pending = <<>>

\* ------------------------------------------------------------------ properties of the polling scheduler

\* C26: under the 30 s polling, every item in the store that is not
\* completed and whose deadline was more than one poll interval away when it
\* entered has its 15m stage recorded once its deadline has passed; a stage
\* is only recorded at a tick before the deadline (C3).
C26_ImminentStageFires ==
    \A i \in 1..Len(items) :
        (/\ Active(items[i])
         /\ items[i].deadline - items[i].createdAt > PollInterval
         /\ now >= items[i].deadline)
            => Includes(items[i].notifiedStages, "15m")

\* C26 witness: the deadline of an item that entered 15 min 30 s and a
\* millisecond before it has passed, and the ticks have recorded the hour
\* stage and then the 15m stage.
C26_Witness ==
    /\ lastOp = "PollTick"
    /\ \E i \in 1..Len(items) :
          /\ Active(items[i])
          /\ items[i].deadline - items[i].createdAt > 15 * MsPerMinute
          /\ now >= items[i].deadline
          /\ items[i].notifiedStages = <<"1h", "15m">>

\* ------------------------------------------------------------------ properties of the store

\* list is notifiedStages with tags appended
Extends(list, stages) ==
    Len(list) >= Len(stages) /\ SubSeq(list, 1, Len(stages)) = stages

\* C28: a poll tick keeps the items that are in the store and what the user
\* and the link resolver have set of them (column, completed, link preview,
\* text, deadline) and only appends stage tags; every other step keeps the
\* stage tags of the items that stay in the store; an item leaves the store
\* only by a deletion and enters it, at the head, only by an addition.
C28_NoLostUpdate ==
    [][/\ lastOp' = "Tick"
              => /\ Len(items') = Len(items)
                 /\ \A i \in 1..Len(items) :
                        /\ [items'[i] EXCEPT !.notifiedStages = <<>>]
                               = [items[i] EXCEPT !.notifiedStages = <<>>]
                        /\ Extends(items'[i].notifiedStages, items[i].notifiedStages)
       /\ lastOp' # "Tick"
              => \A i \in 1..Len(items), j \in 1..Len(items') :
                     items'[j].id = items[i].id
                         => items'[j].notifiedStages = items[i].notifiedStages
       /\ lastOp' # "DeleteItem"
              => \A i \in 1..Len(items) : \E j \in 1..Len(items') : items'[j].id = items[i].id
       /\ lastOp' = "AddItem"
              => /\ Len(items') = Len(items) + 1
                 /\ \A i \in 1..Len(items) : items'[i + 1] = items[i]
       /\ lastOp' # "AddItem" => Len(items') <= Len(items)
      ]_vars

\* C28 witness: a tick has recorded the second stage of an item that was
\* moved to another column and given a link preview after the first.
C28_Witness ==
    /\ lastOp = "Tick"
    /\ \E i \in 1..Len(items) :
          /\ items[i].id = 1
          /\ items[i].category # READ
          /\ items[i].linkPreview.kind = "resolved"
          /\ items[i].notifiedStages = <<"1h", "15m">>

====
